---- MODULE Spec2Model ----
(***************************************************************************)
(* Register-level model of the PCF85263A driver (src/pcf85263a.py).        *)
(*                                                                         *)
(* The driver keeps no state of its own: every accessor is a descriptor of *)
(* the adafruit_register library (i2c_bit.RWBit, i2c_bits.RWBits,          *)
(* i2c_bcd_datetime.BCDDateTimeRegister) bound to an address of the chip.  *)
(* The state of the model is the chip's register file plus a record of the *)
(* last accessor call: what was called, with which argument, what it       *)
(* returned and which bus transactions it issued.                          *)
(*                                                                         *)
(* Every bus transaction may fail (the transport raises): a failed         *)
(* transaction transfers nothing and ends the accessor call.               *)
(***************************************************************************)
EXTENDS Integers, Sequences, FiniteSets, TLC

VARIABLES
    regs,     \* the chip's registers: address -> byte
    op,       \* the last accessor call
    arg,      \* its argument
    status,   \* "ok", "TransportError" or "ValueError"
    ret,      \* the value a getter returned
    txlog,    \* the bus transactions the call issued, in order
    written   \* {v} when the last write to the chip was a datetime write of v that
              \* succeeded in full, {} otherwise

vars == <<regs, op, arg, status, ret, txlog, written>>

----------------------------------------------------------------------------
(* Bytes and bit arithmetic *)

Byte == 0..255

BitAt(x, i) == (x \div (2^i)) % 2

\* x & m for a Python int x (two's complement, any sign) and a mask m in 0..255
BitAnd(x, m) ==
    LET y == x % 256
        b(i) == (BitAt(y, i) * BitAt(m, i)) * (2^i)
    IN b(0) + b(1) + b(2) + b(3) + b(4) + b(5) + b(6) + b(7)

\* (x | y) & 0xFF for Python ints x, y
BitOr(x, y) ==
    LET a == x % 256
        c == y % 256
        b(i) == IF BitAt(a, i) + BitAt(c, i) > 0 THEN 2^i ELSE 0
    IN b(0) + b(1) + b(2) + b(3) + b(4) + b(5) + b(6) + b(7)

\* ~m & 0xFF
BitNot(m) == 255 - (m % 256)

----------------------------------------------------------------------------
(* The chip *)

\* The registers the accessors below touch: the datetime block 0x01..0x07, the
\* alarm compare-enable byte 0x10, the timestamp mode byte 0x23, the offset 0x24.
Addrs == (1..7) \cup {16, 35, 36}

NoValue == "none"

\* struct_time, the seven fields the driver reads and writes
StructTime(y, mo, d, h, mi, s, wd) ==
    [tm_year |-> y, tm_mon |-> mo, tm_mday |-> d, tm_hour |-> h,
     tm_min |-> mi, tm_sec |-> s, tm_wday |-> wd]

\* One bus transaction of an accessor call
Tx(kind, addr, n, ok) == [kind |-> kind, reg |-> addr, n |-> n, ok |-> ok]

\* What a descriptor call leaves: the registers, the outcome, the value read,
\* the transactions issued
Outcome(r, st, v, log) == [regs |-> r, status |-> st, ret |-> v, txlog |-> log]

----------------------------------------------------------------------------
(* adafruit_register.i2c_bit.RWBit *)

\* RWBit.__get__: read the byte, return bool(byte & bit_mask)
RWBit_get(r, d, failAt) ==
    IF failAt = 1
    THEN Outcome(r, "TransportError", NoValue, <<Tx("read", d.addr, 1, FALSE)>>)
    ELSE Outcome(r, "ok", BitAnd(r[d.addr], 2^(d.bit)) # 0,
                 <<Tx("read", d.addr, 1, TRUE)>>)

\* RWBit.__set__: read the byte, set or clear the bit, write the byte back
RWBit_set(r, d, value, failAt) ==
    IF failAt = 1
    THEN Outcome(r, "TransportError", NoValue, <<Tx("read", d.addr, 1, FALSE)>>)
    ELSE LET old == r[d.addr]
             new == IF value THEN BitOr(old, 2^(d.bit))
                             ELSE BitAnd(old, BitNot(2^(d.bit)))
         IN IF failAt = 2
            THEN Outcome(r, "TransportError", NoValue,
                         <<Tx("read", d.addr, 1, TRUE), Tx("write", d.addr, 1, FALSE)>>)
            ELSE Outcome([r EXCEPT ![d.addr] = new], "ok", NoValue,
                         <<Tx("read", d.addr, 1, TRUE), Tx("write", d.addr, 1, TRUE)>>)

----------------------------------------------------------------------------
(* adafruit_register.i2c_bits.RWBits (register_width 1, unsigned) *)

\* bit_mask = ((1 << num_bits) - 1) << lowest_bit
bit_mask(d) == ((2^(d.num_bits)) - 1) * (2^(d.lowest_bit))

\* RWBits.__get__: read the byte, return (byte & bit_mask) >> lowest_bit
RWBits_get(r, d, failAt) ==
    IF failAt = 1
    THEN Outcome(r, "TransportError", NoValue, <<Tx("read", d.addr, 1, FALSE)>>)
    ELSE Outcome(r, "ok", BitAnd(r[d.addr], bit_mask(d)) \div (2^(d.lowest_bit)),
                 <<Tx("read", d.addr, 1, TRUE)>>)

\* RWBits.__set__: value <<= lowest_bit; read the byte; reg &= ~bit_mask;
\* reg |= value; write reg & 0xFF.  The value is not masked to the field.
RWBits_set(r, d, value, failAt) ==
    IF failAt = 1
    THEN Outcome(r, "TransportError", NoValue, <<Tx("read", d.addr, 1, FALSE)>>)
    ELSE LET old == r[d.addr]
             new == BitOr(BitAnd(old, BitNot(bit_mask(d))), value * (2^(d.lowest_bit)))
         IN IF failAt = 2
            THEN Outcome(r, "TransportError", NoValue,
                         <<Tx("read", d.addr, 1, TRUE), Tx("write", d.addr, 1, FALSE)>>)
            ELSE Outcome([r EXCEPT ![d.addr] = new], "ok", NoValue,
                         <<Tx("read", d.addr, 1, TRUE), Tx("write", d.addr, 1, TRUE)>>)

----------------------------------------------------------------------------
(* adafruit_register.i2c_bcd_datetime.BCDDateTimeRegister *)

\* _bcd2bin: value - 6 * (value >> 4)
bcd2bin(value) == value - 6 * (value \div 16)

\* An encoder that splits the digits at 16 instead of 10
bin2bcd_by16(value) == value + 6 * (value \div 16)

\* _bin2bcd: value + 6 * (value // 10)
bin2bcd(value) == value + 6 * (value \div 10)

\* weekday_first=True puts the weekday before the day of the month
weekday_offset(d) == IF d.weekday_first THEN 0 ELSE 1

\* Masks applied on read: sec, min, hour, day, weekday, month, year
mask_datetime == <<127, 127, 63, 63, 7, 31, 255>>

\* BCDDateTimeRegister.__get__: read buffer[1..7] from the block, decode
BCDDateTime_get(r, d, failAt) ==
    IF failAt = 1
    THEN Outcome(r, "TransportError", NoValue, <<Tx("read", d.addr, 7, FALSE)>>)
    ELSE LET buffer == [i \in 1..7 |-> r[d.addr + i - 1]]
             wo == weekday_offset(d)
         IN Outcome(r, "ok",
                StructTime(bcd2bin(BitAnd(buffer[7], mask_datetime[7])) + 2000,
                           bcd2bin(BitAnd(buffer[6], mask_datetime[6])),
                           bcd2bin(BitAnd(buffer[5 - wo], mask_datetime[4])),
                           bcd2bin(BitAnd(buffer[3], mask_datetime[3])),
                           bcd2bin(BitAnd(buffer[2], mask_datetime[2])),
                           bcd2bin(BitAnd(buffer[1], mask_datetime[1])),
                           bcd2bin(BitAnd(buffer[4 + wo], mask_datetime[5])
                                   - d.weekday_start)),
                <<Tx("read", d.addr, 7, TRUE)>>)

\* The bytes __set__ stores in buffer[1..7], before the bytearray's range check
bcd_buffer(d, value) ==
    LET wo == weekday_offset(d)
    IN [i \in 1..7 |->
          CASE i = 1 -> bin2bcd(value.tm_sec) % 128         \* & 0x7F
            [] i = 2 -> bin2bcd(value.tm_min)
            [] i = 3 -> bin2bcd(value.tm_hour)
            [] i = 4 + wo -> bin2bcd(value.tm_wday + d.weekday_start)
            [] i = 5 - wo -> bin2bcd(value.tm_mday)
            [] i = 6 -> bin2bcd(value.tm_mon)
            [] i = 7 -> bin2bcd(value.tm_year - 2000)]

\* BCDDateTimeRegister.__set__: encode into the buffer (a bytearray: storing a
\* number outside 0..255 raises ValueError), then write the block in one
\* transaction.  No field is range-checked.
BCDDateTime_set(r, d, value, failAt) ==
    LET buffer == bcd_buffer(d, value)
    IN IF \E i \in 1..7 : buffer[i] \notin Byte
       THEN Outcome(r, "ValueError", NoValue, <<>>)
       ELSE IF failAt = 1
       THEN Outcome(r, "TransportError", NoValue, <<Tx("write", d.addr, 7, FALSE)>>)
       ELSE Outcome([a \in Addrs |-> IF a \in d.addr..(d.addr + 6)
                                     THEN buffer[a - d.addr + 1] ELSE r[a]],
                    "ok", NoValue, <<Tx("write", d.addr, 7, TRUE)>>)

----------------------------------------------------------------------------
(* The descriptors class PCF85263A declares *)

\* i2c_bit.RWBit(0x1, 7)
datetime_compromised == [addr |-> 1, bit |-> 7]

\* i2c_bcd_datetime.BCDDateTimeRegister(0x01, False, 0)
datetime_register == [addr |-> 1, weekday_first |-> FALSE, weekday_start |-> 0]

\* The slot 1 selector a bit too wide, reaching into slot 2's
timestamp1_control_mode_3bits == [num_bits |-> 3, addr |-> 35, lowest_bit |-> 0]

\* i2c_bits.RWBits(2, 0x23, 0)
timestamp1_control_mode == [num_bits |-> 2, addr |-> 35, lowest_bit |-> 0]

\* i2c_bits.RWBits(3, 0x23, 2)
timestamp2_control_mode == [num_bits |-> 3, addr |-> 35, lowest_bit |-> 2]

\* The slot 3 selector one bit lower, next to slot 2's
timestamp3_control_mode_at5 == [num_bits |-> 2, addr |-> 35, lowest_bit |-> 5]

\* i2c_bits.RWBits(2, 0x23, 6)
timestamp3_control_mode == [num_bits |-> 2, addr |-> 35, lowest_bit |-> 6]

\* The mode selector of timestamp slot k
timestamp_control_mode(k) ==
    CASE k = 1 -> timestamp1_control_mode
      [] k = 2 -> timestamp2_control_mode
      [] k = 3 -> timestamp3_control_mode

\* The mode constants the class names for slot k (timestampK_mode_*)
timestamp_modes(k) ==
    CASE k = 1 -> 0..2
      [] k = 2 -> 0..5
      [] k = 3 -> 0..3

\* i2c_bit.RWBit(0x01, 1)
alarm_interrupt == [addr |-> 1, bit |-> 1]

\* Compare-minutes of alarm 1 declared on compare-seconds' bit
alarm_control_compare_shared(b) == [addr |-> 16, bit |-> IF b = 1 THEN 0 ELSE b]

\* alarm1_control_compare_* and alarm2_control_compare_*: i2c_bit.RWBit(0x10, b),
\* b = 0 seconds, 1 minutes, 2 hours, 3 days, 4 months (alarm 1),
\* 5 minutes, 6 hours, 7 weekdays (alarm 2)
alarm_control_compare(b) == [addr |-> 16, bit |-> b]

\* i2c_bits.RWBits(8, 0x24, 0)
offset_register == [num_bits |-> 8, addr |-> 36, lowest_bit |-> 0]

----------------------------------------------------------------------------
(* The datetime property *)

\* A getter that clears the compromised mark once the time has been read
datetime_get_clears(r, failAt) ==
    LET g == BCDDateTime_get(r, datetime_register, failAt)
    IN IF g.status # "ok" THEN g
       ELSE LET c == RWBit_set(r, datetime_compromised, FALSE, 0)
            IN Outcome(c.regs, c.status, g.ret, g.txlog \o c.txlog)

\* datetime (getter): return self.datetime_register
datetime_get(r, failAt) == BCDDateTime_get(r, datetime_register, failAt)

\* A setter that marks the clock compromised instead of clearing the mark
datetime_set_marks(r, value, failAt) ==
    LET w == BCDDateTime_set(r, datetime_register, value, failAt)
    IN IF w.status # "ok" THEN w
       ELSE LET c == RWBit_set(w.regs, datetime_compromised, TRUE,
                               IF failAt > 1 THEN failAt - 1 ELSE 0)
            IN Outcome(c.regs, c.status, NoValue, w.txlog \o c.txlog)

\* A setter that swallows a failure of the block write and goes on to the flag
datetime_set_goes_on(r, value, failAt) ==
    LET w == BCDDateTime_set(r, datetime_register, value, failAt)
        c == RWBit_set(w.regs, datetime_compromised, FALSE,
                       IF failAt > 1 THEN failAt - 1 ELSE 0)
    IN Outcome(c.regs, c.status, NoValue, w.txlog \o c.txlog)

\* datetime (setter): self.datetime_register = value, then
\* self.datetime_compromised = False; an exception of the first statement
\* skips the second
datetime_set(r, value, failAt) ==
    LET w == BCDDateTime_set(r, datetime_register, value, failAt)
    IN IF w.status # "ok" THEN w
       ELSE LET c == RWBit_set(w.regs, datetime_compromised, FALSE,
                               IF failAt > 1 THEN failAt - 1 ELSE 0)
            IN Outcome(c.regs, c.status, NoValue, w.txlog \o c.txlog)

----------------------------------------------------------------------------
(* Inputs *)

\* 2024-03-15, a Friday, 14:30:45
EndToEnd == StructTime(2024, 3, 15, 14, 30, 45, 4)

\* struct_time values inside the chip's domain: EndToEnd with one field moved to
\* the ends of its range
ValidSample ==
    {EndToEnd}
    \cup {[EndToEnd EXCEPT !.tm_sec = x] : x \in {0, 59}}
    \cup {[EndToEnd EXCEPT !.tm_min = x] : x \in {0, 59}}
    \cup {[EndToEnd EXCEPT !.tm_hour = x] : x \in {0, 23}}
    \cup {[EndToEnd EXCEPT !.tm_mday = x] : x \in {1, 31}}
    \cup {[EndToEnd EXCEPT !.tm_wday = x] : x \in {0, 6}}
    \cup {[EndToEnd EXCEPT !.tm_mon = x] : x \in {1, 12}}
    \cup {[EndToEnd EXCEPT !.tm_year = x] : x \in {2000, 2099}}

\* struct_time values with one field outside the chip's domain
InvalidSample ==
    {[EndToEnd EXCEPT !.tm_sec = 60], [EndToEnd EXCEPT !.tm_min = 60],
     [EndToEnd EXCEPT !.tm_hour = 24], [EndToEnd EXCEPT !.tm_mday = 0],
     [EndToEnd EXCEPT !.tm_mday = 32], [EndToEnd EXCEPT !.tm_wday = 7],
     [EndToEnd EXCEPT !.tm_mon = 13], [EndToEnd EXCEPT !.tm_year = 2100],
     [EndToEnd EXCEPT !.tm_year = 1999], [EndToEnd EXCEPT !.tm_min = 160]}

\* Every valid value of each field, one field at a time
WideSample ==
    {[EndToEnd EXCEPT !.tm_sec = x] : x \in 0..59}
    \cup {[EndToEnd EXCEPT !.tm_min = x] : x \in 0..59}
    \cup {[EndToEnd EXCEPT !.tm_hour = x] : x \in 0..23}
    \cup {[EndToEnd EXCEPT !.tm_mday = x] : x \in 1..31}
    \cup {[EndToEnd EXCEPT !.tm_wday = x] : x \in 0..6}
    \cup {[EndToEnd EXCEPT !.tm_mon = x] : x \in 1..12}
    \cup {[EndToEnd EXCEPT !.tm_year = x] : x \in 2000..2099}
    \cup {StructTime(2000, 1, 1, 0, 0, 0, 0), StructTime(2099, 12, 31, 23, 59, 59, 6)}

\* The largest raw value written to a timestamp mode selector
MaxModeValue == 7

\* Raw offsets, the ends of the signed 8-bit range and values around zero
OffsetSample == {-128, -127, -65, -64, -2, -1, 0, 1, 2, 63, 64, 126, 127}

\* Contents of the datetime block before the first call: two encoded times, each
\* with the compromised bit set and clear, and a block of all ones
InitBlocks ==
    {[i \in 1..7 |-> IF i = 1 /\ f THEN bcd_buffer(datetime_register, v)[i] + 128
                     ELSE bcd_buffer(datetime_register, v)[i]] :
        v \in {EndToEnd, StructTime(2000, 1, 1, 0, 0, 0, 0)}, f \in BOOLEAN}
    \cup {[i \in 1..7 |-> 255]}

\* A register file: the datetime block and the bytes at 0x10, 0x23, 0x24
RegisterFile(block, r10, r23, r24) ==
    [a \in Addrs |-> CASE a \in 1..7 -> block[a]
                       [] a = 16 -> r10
                       [] a = 35 -> r23
                       [] a = 36 -> r24]

----------------------------------------------------------------------------
(* Accessor calls *)

\* One accessor call: its outcome o becomes the state
Call(name, a, o, w) ==
    /\ regs' = o.regs
    /\ op' = name
    /\ arg' = a
    /\ status' = o.status
    /\ ret' = o.ret
    /\ txlog' = o.txlog
    /\ written' = w

\* rtc.datetime = value
SetDatetime(value, failAt) ==
    LET o == datetime_set(regs, value, failAt)
    IN Call("set_datetime", value, o, IF o.status = "ok" THEN {value} ELSE {})

\* rtc.datetime
GetDatetime(failAt) ==
    Call("get_datetime", NoValue, datetime_get(regs, failAt), written)

\* rtc.datetime_compromised = value
SetCompromised(value, failAt) ==
    Call("set_datetime_compromised", value,
         RWBit_set(regs, datetime_compromised, value, failAt), {})

\* rtc.datetime_compromised
GetCompromised(failAt) ==
    Call("get_datetime_compromised", NoValue,
         RWBit_get(regs, datetime_compromised, failAt), written)

\* rtc.alarm_interrupt = value
SetAlarmInterrupt(value, failAt) ==
    Call("set_alarm_interrupt", value,
         RWBit_set(regs, alarm_interrupt, value, failAt), {})

\* rtc.alarm_interrupt
GetAlarmInterrupt(failAt) ==
    Call("get_alarm_interrupt", NoValue,
         RWBit_get(regs, alarm_interrupt, failAt), written)

\* rtc.timestampK_control_mode = value
SetTimestampMode(k, value, failAt) ==
    Call("set_timestamp_control_mode", [slot |-> k, value |-> value],
         RWBits_set(regs, timestamp_control_mode(k), value, failAt), {})

\* rtc.timestampK_control_mode
GetTimestampMode(k, failAt) ==
    Call("get_timestamp_control_mode", [slot |-> k],
         RWBits_get(regs, timestamp_control_mode(k), failAt), written)

\* rtc.alarmN_control_compare_X = value
SetAlarmCompare(b, value, failAt) ==
    Call("set_alarm_control_compare", [bit |-> b, value |-> value],
         RWBit_set(regs, alarm_control_compare(b), value, failAt), {})

\* rtc.alarmN_control_compare_X
GetAlarmCompare(b, failAt) ==
    Call("get_alarm_control_compare", [bit |-> b],
         RWBit_get(regs, alarm_control_compare(b), failAt), written)

\* rtc.offset_register = value
SetOffset(value, failAt) ==
    Call("set_offset_register", value,
         RWBits_set(regs, offset_register, value, failAt), {})

\* rtc.offset_register
GetOffset(failAt) ==
    Call("get_offset_register", NoValue,
         RWBits_get(regs, offset_register, failAt), written)

----------------------------------------------------------------------------
(* Specifications *)

NoCallYet ==
    /\ op = "init"
    /\ arg = NoValue
    /\ status = "ok"
    /\ ret = NoValue
    /\ txlog = <<>>
    /\ written = {}

\* The clock: datetime, datetime_compromised, alarm_interrupt
Init ==
    /\ regs \in {RegisterFile(b, 0, 0, 0) : b \in InitBlocks}
    /\ NoCallYet

Next ==
    \/ \E value \in ValidSample \cup InvalidSample, failAt \in 0..3 :
          SetDatetime(value, failAt)
    \/ \E failAt \in 0..1 : GetDatetime(failAt)
    \/ \E value \in BOOLEAN, failAt \in 0..2 : SetCompromised(value, failAt)
    \/ \E failAt \in 0..1 : GetCompromised(failAt)
    \/ \E value \in BOOLEAN, failAt \in 0..2 : SetAlarmInterrupt(value, failAt)
    \/ \E failAt \in 0..1 : GetAlarmInterrupt(failAt)

Spec == Init /\ [][Next]_vars

\* Writing and reading the clock on a bus that does not fail, over every value
\* of every field
NextRoundTrip ==
    \/ \E value \in WideSample : SetDatetime(value, 0)
    \/ GetDatetime(0)
    \/ GetCompromised(0)

SpecRoundTrip == Init /\ [][NextRoundTrip]_vars

\* The timestamp mode byte 0x23, from any content
InitModes ==
    /\ regs \in {RegisterFile(bcd_buffer(datetime_register, EndToEnd), 0, m, 0) : m \in Byte}
    /\ NoCallYet

NextModes ==
    \/ \E k \in 1..3, value \in 0..MaxModeValue, failAt \in 0..2 :
          SetTimestampMode(k, value, failAt)
    \/ \E k \in 1..3, failAt \in 0..1 : GetTimestampMode(k, failAt)

SpecModes == InitModes /\ [][NextModes]_vars

\* The alarm compare-enable byte 0x10, from any content
InitAlarm ==
    /\ regs \in {RegisterFile(bcd_buffer(datetime_register, EndToEnd), e, 0, 0) : e \in Byte}
    /\ NoCallYet

NextAlarm ==
    \/ \E b \in 0..7, value \in BOOLEAN, failAt \in 0..2 : SetAlarmCompare(b, value, failAt)
    \/ \E b \in 0..7, failAt \in 0..1 : GetAlarmCompare(b, failAt)

SpecAlarm == InitAlarm /\ [][NextAlarm]_vars

\* The calibration offset 0x24
InitOffset ==
    /\ regs \in {RegisterFile(bcd_buffer(datetime_register, EndToEnd), 0, 0, o) : o \in {0, 255}}
    /\ NoCallYet

NextOffset ==
    \/ \E value \in OffsetSample, failAt \in 0..2 : SetOffset(value, failAt)
    \/ \E failAt \in 0..1 : GetOffset(failAt)

SpecOffset == InitOffset /\ [][NextOffset]_vars

----------------------------------------------------------------------------
(* What the claims speak of *)

\* The struct_time values of the chip's domain: year 0-99 past 2000, month 1-12,
\* day 1-31, weekday 0-6, hour 0-23, minute 0-59, second 0-59
IsValid(v) ==
    /\ v.tm_year \in 2000..2099
    /\ v.tm_mon \in 1..12
    /\ v.tm_mday \in 1..31
    /\ v.tm_wday \in 0..6
    /\ v.tm_hour \in 0..23
    /\ v.tm_min \in 0..59
    /\ v.tm_sec \in 0..59

\* What the accessors read from registers r on a bus that does not fail
FlagReads(r) == RWBit_get(r, datetime_compromised, 0).ret
DatetimeReads(r) == datetime_get(r, 0).ret
ModeReads(r, k) == RWBits_get(r, timestamp_control_mode(k), 0).ret
AlarmCompareReads(r, b) == RWBit_get(r, alarm_control_compare(b), 0).ret
OffsetReads(r) == RWBits_get(r, offset_register, 0).ret

\* Registers 0x01-0x07 hold the encoding of v
BlockHolds(r, v) ==
    \A i \in 1..7 : r[i] = bcd_buffer(datetime_register, v)[i]

\* r with the compromised bit (0x01 bit 7) flipped
FlagFlipped(r) ==
    [r EXCEPT ![1] = IF BitAt(r[1], 7) = 1 THEN r[1] - 128 ELSE r[1] + 128]

----------------------------------------------------------------------------
(* Claims about the clock, under Spec *)

\* C1: after the datetime setter has completed for a valid value, both of its
\* steps having succeeded, the compromised flag reads false and registers
\* 0x01-0x07 hold the value just written, whatever the registers held before.
C1_WriteClearsCompromised ==
    (op = "set_datetime" /\ status = "ok" /\ IsValid(arg)) =>
        /\ FlagReads(regs) = FALSE
        /\ BlockHolds(regs, arg)
        /\ DatetimeReads(regs) = arg

\* C1 witness: the end-to-end value has been written in full and the flag reads
\* false.
C1_Witness ==
    /\ op = "set_datetime"
    /\ status = "ok"
    /\ arg = EndToEnd
    /\ Len(txlog) = 3
    /\ FlagReads(regs) = FALSE
    /\ regs[1] = 69

\* C3, as claimed: a datetime write of a value with a field outside its domain
\* fails, and before any bus transaction is issued.
C3_RejectsOutOfRange ==
    (op = "set_datetime" /\ ~IsValid(arg)) =>
        (status # "ok" /\ txlog = <<>>)

\* C4: the setter issues the block write first and the flag clear (a read and a
\* write of 0x01) only after it; a failed transaction is the last one issued and
\* the caller gets the failure.  When the block write fails nothing follows it
\* and the registers, the compromised flag among them, are as before; when the
\* flag clear fails the caller gets the failure and the block holds the new value.
C4_TwoStepsNoRetry ==
    [][op' = "set_datetime" =>
        LET n == Len(txlog')
        IN /\ n <= 3
           /\ \A i \in 1..n :
                /\ ~txlog'[i].ok => (i = n /\ status' = "TransportError")
                /\ i = 1 => txlog'[i] = Tx("write", 1, 7, txlog'[i].ok)
                /\ i = 2 => txlog'[i] = Tx("read", 1, 1, txlog'[i].ok)
                /\ i = 3 => txlog'[i] = Tx("write", 1, 1, txlog'[i].ok)
           /\ status' = "TransportError" => (n >= 1 /\ ~txlog'[n].ok)
           /\ status' = "ok" => n = 3
           /\ (n >= 1 /\ ~txlog'[1].ok) =>
                (n = 1 /\ regs' = regs /\ FlagReads(regs') = FlagReads(regs))
           /\ (n >= 2 /\ ~txlog'[n].ok) =>
                (status' = "TransportError" /\ BlockHolds(regs', arg'))
    ]_vars

\* C4 witness: the block was written, the write that clears the flag failed, the
\* caller got the failure and the block holds the new seconds.
C4_Witness ==
    /\ op = "set_datetime"
    /\ status = "TransportError"
    /\ Len(txlog) = 3
    /\ arg = [EndToEnd EXCEPT !.tm_sec = 59]
    /\ regs[1] = 89

----------------------------------------------------------------------------
(* Claims about the round trip, under SpecRoundTrip *)

\* C2: a read of the datetime that follows a write of a valid value, with no
\* other write to the chip in between, returns the seven fields written.
C2_RoundTrip ==
    (op = "get_datetime" /\ status = "ok") =>
        \A v \in written : IsValid(v) => ret = v

\* C2 witness: the last second of the chip's range has been written and read
\* back.
C2_Witness ==
    /\ op = "get_datetime"
    /\ status = "ok"
    /\ written = {StructTime(2099, 12, 31, 23, 59, 59, 6)}
    /\ ret = StructTime(2099, 12, 31, 23, 59, 59, 6)

----------------------------------------------------------------------------
(* Claims about reading the clock and about alarm_interrupt, under Spec *)

\* C9: a read of the datetime issues no write, leaves every register (0x01 bit 7
\* among them) as it was, and returns the fields it would return with the
\* compromised flag the other way round.
C9_ReadHasNoEffect ==
    [][op' = "get_datetime" =>
        /\ regs' = regs
        /\ \A i \in 1..Len(txlog') : txlog'[i].kind = "read"
        /\ status' = "ok" =>
              /\ ret' = DatetimeReads(regs)
              /\ ret' = DatetimeReads(FlagFlipped(regs))
    ]_vars

\* C9 witness: the datetime has been read while the compromised flag is set.
C9_Witness ==
    /\ op = "get_datetime"
    /\ status = "ok"
    /\ FlagReads(regs) = TRUE
    /\ ret = EndToEnd

\* C10, as claimed: a write of alarm_interrupt leaves what the datetime getter
\* returns, and the compromised flag, as they were.
C10_AlarmInterruptKeepsTime ==
    [][op' = "set_alarm_interrupt" =>
        /\ DatetimeReads(regs') = DatetimeReads(regs)
        /\ FlagReads(regs') = FlagReads(regs)
    ]_vars

----------------------------------------------------------------------------
(* Claims about the timestamp mode byte, under SpecModes *)

\* The layout the register map documents and the one the selectors have
DocumentedLowBit(k) == CASE k = 1 -> 0 [] k = 2 -> 2 [] k = 3 -> 5
SelectorLowBit(k) == CASE k = 1 -> 0 [] k = 2 -> 2 [] k = 3 -> 6
SelectorWidth(k) == CASE k = 1 -> 2 [] k = 2 -> 3 [] k = 3 -> 2

\* Bits low..low+width-1 of byte x
Field(x, low, width) == (x \div (2^low)) % (2^width)

C6_DocumentedLayout ==
    [][/\ (op' = "set_timestamp_control_mode" /\ status' = "ok" /\ regs[35] = 0
              /\ arg'.value \in timestamp_modes(arg'.slot)) =>
            regs'[35] = arg'.value * (2^DocumentedLowBit(arg'.slot))
       /\ (op' = "get_timestamp_control_mode" /\ status' = "ok") =>
            ret' = Field(regs[35], DocumentedLowBit(arg'.slot), SelectorWidth(arg'.slot))
    ]_vars

\* C6, amended: the selectors sit at bits 0-1, 2-4 and 6-7: setting slot k to v
\* on a zeroed byte gives v shifted left by 0, 2 and 6, and a get returns those
\* bits.
C6_SelectorLayout ==
    [][/\ (op' = "set_timestamp_control_mode" /\ status' = "ok" /\ regs[35] = 0
              /\ arg'.value \in timestamp_modes(arg'.slot)) =>
            regs'[35] = arg'.value * (2^SelectorLowBit(arg'.slot))
       /\ (op' = "get_timestamp_control_mode" /\ status' = "ok") =>
            ret' = Field(regs[35], SelectorLowBit(arg'.slot), SelectorWidth(arg'.slot))
    ]_vars

\* C6 witness: slot 3 has been set to 3 and the byte is 3 shifted left by 6.
C6_Witness ==
    /\ op = "set_timestamp_control_mode"
    /\ status = "ok"
    /\ arg = [slot |-> 3, value |-> 3]
    /\ regs[35] = 192

----------------------------------------------------------------------------
(* Claims about the alarm compare-enable byte, under SpecAlarm *)

\* C7: setting one of the eight compare-enable accessors gives its bit of 0x10
\* the value set and leaves the other seven bits as they were; on a zeroed byte,
\* enabling alarm 1's compare-seconds leaves the byte with bit 0 alone set, and
\* compare-minutes reads false.
C7_AlarmEnableIndependence ==
    [][(op' = "set_alarm_control_compare" /\ status' = "ok") =>
        /\ BitAt(regs'[16], arg'.bit) = (IF arg'.value THEN 1 ELSE 0)
        /\ \A b \in (0..7) \ {arg'.bit} : BitAt(regs'[16], b) = BitAt(regs[16], b)
        /\ \A a \in Addrs \ {16} : regs'[a] = regs[a]
        /\ (regs[16] = 0 /\ arg' = [bit |-> 0, value |-> TRUE]) =>
              (regs'[16] = 1 /\ AlarmCompareReads(regs', 1) = FALSE)
    ]_vars

\* C7 witness: compare-seconds has been enabled and is the one bit set.
C7_Witness ==
    /\ op = "set_alarm_control_compare"
    /\ status = "ok"
    /\ arg = [bit |-> 0, value |-> TRUE]
    /\ regs[16] = 1
    /\ AlarmCompareReads(regs, 0) = TRUE
    /\ AlarmCompareReads(regs, 1) = FALSE

----------------------------------------------------------------------------
(* Claims about the calibration offset, under SpecOffset *)

\* C8, as claimed: after v in -128..127 has been written to offset_register the
\* register holds v modulo 256 and offset_register reads v.
C8_OffsetRoundTrip ==
    (op = "set_offset_register" /\ status = "ok" /\ arg \in -128..127) =>
        /\ regs[36] = arg % 256
        /\ OffsetReads(regs) = arg

====
